---- MODULE Spec2Model ----
(***************************************************************************)
(* A model of the VIC-II raster scanner of c64/src/vic.rs (struct Vic) and *)
(* of the byte-addressable memories it reads (ya6502/src/memory.rs).       *)
(*                                                                         *)
(* The state is the Vic struct (its two memories, its two color registers, *)
(* the raster position and the character-scan cursor) together with what   *)
(* the caller observes: the value returned by the last call, the memory    *)
(* reads that call performed, and the number of pixels emitted so far.     *)
(***************************************************************************)
EXTENDS Integers, Sequences, FiniteSets, TLC

(***************************************************************************)
(* Geometry constants, c64/src/vic.rs lines 160-186.                       *)
(***************************************************************************)
LEFT_BORDER_START == 77
LEFT_BORDER_WIDTH == 47
DISPLAY_WINDOW_START == LEFT_BORDER_START + LEFT_BORDER_WIDTH
DISPLAY_WINDOW_WIDTH == 320
RIGHT_BORDER_START == DISPLAY_WINDOW_START + DISPLAY_WINDOW_WIDTH
RIGHT_BORDER_WIDTH == 48
BORDER_END == RIGHT_BORDER_START + RIGHT_BORDER_WIDTH
VISIBLE_PIXELS == LEFT_BORDER_WIDTH + DISPLAY_WINDOW_WIDTH + RIGHT_BORDER_WIDTH
RASTER_LENGTH == 65 * 8

TOTAL_HEIGHT == 262
TOP_BORDER_FIRST_LINE == 41
DISPLAY_WINDOW_FIRST_LINE == 51
TOP_BORDER_HEIGHT == DISPLAY_WINDOW_FIRST_LINE - TOP_BORDER_FIRST_LINE
DISPLAY_WINDOW_HEIGHT == 200
BOTTOM_BORDER_FIRST_LINE == DISPLAY_WINDOW_FIRST_LINE + DISPLAY_WINDOW_HEIGHT
BLANK_AREA_FIRST_LINE == 13
BOTTOM_BORDER_HEIGHT == BLANK_AREA_FIRST_LINE + TOTAL_HEIGHT - BOTTOM_BORDER_FIRST_LINE
VISIBLE_LINES == TOP_BORDER_HEIGHT + DISPLAY_WINDOW_HEIGHT + BOTTOM_BORDER_HEIGHT

\* The two constants local to Vic::tick.
DISPLAY_WINDOW_LAST_LINE == BOTTOM_BORDER_FIRST_LINE - 1
DISPLAY_WINDOW_END == RIGHT_BORDER_START - 1

\* mod registers
BORDER_COLOR == 53280
BACKGROUND_COLOR_0 == 53281

\* The three base addresses Vic::background_tick reads from.
CHARACTER_MATRIX_BASE == 1024
CHARACTER_BITMAP_BASE == 4096
COLOR_TABLE_BASE == 55296

\* Integer widths of the Rust types involved.
U8 == 256
U16 == 65536

\* The number of pixel clock ticks of one frame.
FRAME_TICKS == RASTER_LENGTH * TOTAL_HEIGHT

(***************************************************************************)
(* Memories.  A memory is described by its contents at construction        *)
(* (image), the bytes stored into it since (poked), and the addresses its  *)
(* Read implementation does not support (bad).                             *)
(***************************************************************************)

\* The contents a memory is constructed with: image 0 is SimpleRam::new
\* (all zero); the other images are address-dependent byte patterns, as left
\* by a loader (SimpleRam.bytes is public and filled by copy_from_slice).
ImageByte(image, address) ==
    CASE image = 0 -> 0
      [] image = 1 -> (address * 37 + 13) % U8
      [] OTHER     -> (address * 11 + (address \div 8) * 5 + image) % U8

\* SimpleRam::bytes[address]
ByteAt(memory, address) ==
    IF address \in DOMAIN memory.poked
    THEN memory.poked[address]
    ELSE ImageByte(memory.image, address)

\* Read::read : Ok(byte), or Err(ReadError { address }) for an unsupported
\* location.
MemRead(memory, address) ==
    IF address \in memory.bad
    THEN [ok |-> FALSE, address |-> address]
    ELSE [ok |-> TRUE, value |-> ByteAt(memory, address)]

\* SimpleRam::write, the bus storing a byte.
MemWrite(memory, address, value) ==
    [memory EXCEPT !.poked =
        [a \in (DOMAIN memory.poked) \cup {address} |->
            IF a = address THEN value ELSE memory.poked[a]]]

NewMemory(image) == [image |-> image, poked |-> <<>>, bad |-> {}]

(***************************************************************************)
(* The Vic struct and what its caller observes.                            *)
(***************************************************************************)
VARIABLES
    graphics_memory,        \* Vic.graphics_memory
    color_memory,           \* Vic.color_memory (shared with the bus)
    color_borrow,           \* the holders of a live RefMut of color_memory
    reg_border_color,       \* Vic.reg_border_color
    reg_background_color,   \* Vic.reg_background_color
    raster_counter,         \* Vic.raster_counter
    x_counter,              \* Vic.x_counter
    graphics_column,        \* Vic.graphics_column
    graphics_row,           \* Vic.graphics_row
    character_offset,       \* Vic.character_offset
    graphics_mask,          \* Vic.graphics_mask
    result,                 \* the value returned by the last call
    reads,                  \* the memory reads performed by the last tick
    last_pixel,             \* the position reported by the last VicOutput
    ticks,                  \* number of successful ticks, mod FRAME_TICKS
    written,                \* the successful register writes since the
                            \* last pixel: a sequence of <<address, value>>
    budget,                 \* bus writes to the memories still allowed
    sequence_number,        \* Debugger.sequence_number
    receiver_queue,         \* FakeDebugAdapterInternals.receiver_queue
    sender_queue,           \* FakeDebugAdapterInternals.sender_queue
    calls,                  \* the adapter calls of the last process_meessages
    incoming,               \* every message pushed to the receiver queue
    atari_ram,              \* an AtariRam, once constructed
    atari_rom               \* an AtariRom, once constructed

memories == <<graphics_memory, color_memory, color_borrow>>
registers == <<reg_border_color, reg_background_color>>
position == <<x_counter, raster_counter>>
cursor == <<graphics_row, graphics_column, character_offset, graphics_mask>>
observed == <<result, reads, last_pixel, ticks, written>>
debugger == <<sequence_number, receiver_queue, sender_queue, calls, incoming>>
atari == <<atari_ram, atari_rom>>
vars == <<memories, registers, position, cursor, observed, budget, debugger,
          atari>>

\* Vic::new, on a color memory that nobody has borrowed.
InitVic ==
    /\ color_borrow = <<>>
    /\ reg_border_color = 0
    /\ reg_background_color = 0
    /\ raster_counter = 0
    /\ x_counter = 0
    /\ graphics_column = 0
    /\ graphics_row = 0
    /\ character_offset = 0
    /\ graphics_mask = 128
    /\ result = [op |-> "new"]
    /\ reads = <<>>
    /\ last_pixel = <<>>
    /\ ticks = 0
    /\ written = <<>>

\* Debugger::new on a FakeDebugAdapter::new: nothing received, nothing sent.
InitDebugger ==
    /\ sequence_number = 0
    /\ receiver_queue = <<>>
    /\ sender_queue = <<>>
    /\ calls = <<>>
    /\ incoming = <<>>

\* No Atari memory has been constructed.
NoAtari ==
    /\ atari_ram = [built |-> FALSE]
    /\ atari_rom = [built |-> FALSE]

(***************************************************************************)
(* Vic::tick and Vic::background_tick.                                     *)
(***************************************************************************)

\* a & b on u8 operands
RECURSIVE BitAndN(_, _, _)
BitAndN(a, b, n) ==
    IF n = 0 THEN 0
    ELSE (a % 2) * (b % 2) + 2 * BitAndN(a \div 2, b \div 2, n - 1)

BitAnd(a, b) == BitAndN(a, b, 8)

\* RotateRight rotating to the left.
RotateLeft(mask) == ((mask * 2) % 256) + (mask \div 128)

\* u8::rotate_right(1)
RotateRight(mask) == (mask \div 2) + (mask % 2) * 128

\* InDisplayWindow with the right border's first column taken in.
InDisplayWindowInclusiveEnd(x, line) ==
    /\ line >= DISPLAY_WINDOW_FIRST_LINE
    /\ line <= DISPLAY_WINDOW_LAST_LINE
    /\ x >= DISPLAY_WINDOW_START
    /\ x <= RIGHT_BORDER_START

\* InDisplayWindow with the first line of the display window left out.
InDisplayWindowLateStart(x, line) ==
    /\ line > DISPLAY_WINDOW_FIRST_LINE
    /\ line <= DISPLAY_WINDOW_LAST_LINE
    /\ x >= DISPLAY_WINDOW_START
    /\ x <= DISPLAY_WINDOW_END

\* InDisplayWindow with the last column of the display window left out.
InDisplayWindowShortLine(x, line) ==
    /\ line >= DISPLAY_WINDOW_FIRST_LINE
    /\ line <= DISPLAY_WINDOW_LAST_LINE
    /\ x >= DISPLAY_WINDOW_START
    /\ x < DISPLAY_WINDOW_END

\* InDisplayWindow with the last column of the left border taken in.
InDisplayWindowEarlyStart(x, line) ==
    /\ line >= DISPLAY_WINDOW_FIRST_LINE
    /\ line <= DISPLAY_WINDOW_LAST_LINE
    /\ x >= DISPLAY_WINDOW_START - 1
    /\ x <= DISPLAY_WINDOW_END

\* The match of Vic::tick: is the position to be drawn by background_tick?
InDisplayWindow(x, line) ==
    /\ line >= DISPLAY_WINDOW_FIRST_LINE
    /\ line <= DISPLAY_WINDOW_LAST_LINE
    /\ x >= DISPLAY_WINDOW_START
    /\ x <= DISPLAY_WINDOW_END

\* The address of the current cell in the character matrix (u16 arithmetic).
MatrixAddress(row, column) == (CHARACTER_MATRIX_BASE + row + column) % U16

\* BitmapAddress with the glyph index not scaled by the 8 rows of a glyph.
BitmapAddressUnscaled(character_index, offset) ==
    (CHARACTER_BITMAP_BASE + character_index + offset) % U16

\* The address of the current bitmap row of a glyph (u16 arithmetic).
BitmapAddress(character_index, offset) ==
    (CHARACTER_BITMAP_BASE + ((character_index * 8) % U16) + offset) % U16

\* ColorAddress one cell too far.
ColorAddressOffByOne(row, column) ==
    (COLOR_TABLE_BASE + row + column + 1) % U16

\* The address of the current cell in the color table (u16 arithmetic).
ColorAddress(row, column) == (COLOR_TABLE_BASE + row + column) % U16

\* DrawsGraphicsPixel taking every pixel for a foreground pixel.
DrawsGraphicsPixelAlways(character_pixel_row, mask) == TRUE

\* character_pixel_row & self.graphics_mask != 0
DrawsGraphicsPixel(character_pixel_row, mask) ==
    BitAnd(character_pixel_row, mask) # 0

\* NextCursor with the column carrying one glyph too late.
NextCursorLateCarry(row, column, offset, mask) ==
    LET m == RotateRight(mask) IN
    IF BitAnd(m, 128) # 0
    THEN IF column > 39
         THEN IF offset >= 7
              THEN <<(row + 40) % (40 * 25), 0, 0, m>>
              ELSE <<row, 0, (offset + 1) % U16, m>>
         ELSE <<row, (column + 1) % U16, offset, m>>
    ELSE <<row, column, offset, m>>

\* NextCursor with the column carrying after 39 glyphs instead of 40.
NextCursorShortLine(row, column, offset, mask) ==
    LET m == RotateRight(mask) IN
    IF BitAnd(m, 128) # 0
    THEN IF column >= 38
         THEN IF offset >= 7
              THEN <<(row + 40) % (40 * 25), 0, 0, m>>
              ELSE <<row, 0, (offset + 1) % U16, m>>
         ELSE <<row, (column + 1) % U16, offset, m>>
    ELSE <<row, column, offset, m>>

\* The cursor update at the end of background_tick: the mask rotates, and
\* when it is back at the most significant bit the column, the offset and
\* the row carry into one another.
NextCursor(row, column, offset, mask) ==
    LET m == RotateRight(mask) IN
    IF BitAnd(m, 128) # 0
    THEN IF column >= 39
         THEN IF offset >= 7
              THEN <<(row + 40) % (40 * 25), 0, 0, m>>
              ELSE <<row, 0, (offset + 1) % U16, m>>
         ELSE <<row, (column + 1) % U16, offset, m>>
    ELSE <<row, column, offset, m>>

\* ReadErrorOf reporting the base of the character matrix.
ReadErrorAtBase(failure) == [address |-> CHARACTER_MATRIX_BASE]

\* The ? operator on a failed read: the ReadError is returned as it is.
ReadErrorOf(failure) == [address |-> failure.address]

\* Vic::background_tick on the current state: the reads it performs, in
\* order, and either the color and the advanced cursor, or the ReadError of
\* the first read that fails (the ? operator returns before any assignment).
BackgroundTick ==
    LET ma == MatrixAddress(graphics_row, graphics_column)
        r1 == MemRead(graphics_memory, ma)
    IN  IF ~r1.ok
        THEN [ok |-> FALSE, error |-> ReadErrorOf(r1),
              reads |-> << <<"graphics", ma>> >>]
        ELSE
    LET ba == BitmapAddress(r1.value, character_offset)
        r2 == MemRead(graphics_memory, ba)
    IN  IF ~r2.ok
        THEN [ok |-> FALSE, error |-> ReadErrorOf(r2),
              reads |-> << <<"graphics", ma>>, <<"graphics", ba>> >>]
        ELSE
    IF DrawsGraphicsPixel(r2.value, graphics_mask)
    THEN LET ca == ColorAddress(graphics_row, graphics_column)
             r3 == MemRead(color_memory, ca)
         IN  IF ~r3.ok
             THEN [ok |-> FALSE, error |-> ReadErrorOf(r3),
                   reads |-> << <<"graphics", ma>>, <<"graphics", ba>>,
                                <<"color", ca>> >>]
             ELSE [ok |-> TRUE, color |-> r3.value,
                   reads |-> << <<"graphics", ma>>, <<"graphics", ba>>,
                                <<"color", ca>> >>,
                   cursor |-> NextCursor(graphics_row, graphics_column,
                                         character_offset, graphics_mask)]
    ELSE [ok |-> TRUE, color |-> reg_background_color,
          reads |-> << <<"graphics", ma>>, <<"graphics", ba>> >>,
          cursor |-> NextCursor(graphics_row, graphics_column,
                                character_offset, graphics_mask)]

\* PositionAfterTick advancing also when the pixel failed.
PositionAfterTickAlways(ok, x, line) ==
    IF x + 1 >= RASTER_LENGTH
    THEN <<0, IF line + 1 >= TOTAL_HEIGHT THEN 0 ELSE line + 1>>
    ELSE <<x + 1, line>>

\* AdvancePosition with the comparisons off by one.
AdvancePositionLate(x, line) ==
    IF x + 1 > RASTER_LENGTH
    THEN <<0, IF line + 1 > TOTAL_HEIGHT THEN 0 ELSE line + 1>>
    ELSE <<x + 1, line>>

\* The position update at the end of Vic::tick.
AdvancePosition(x, line) ==
    IF x + 1 >= RASTER_LENGTH
    THEN <<0, IF line + 1 >= TOTAL_HEIGHT THEN 0 ELSE line + 1>>
    ELSE <<x + 1, line>>

\* The position Vic::tick leaves: the ? on background_tick returns before the
\* counters are advanced.
PositionAfterTick(ok, x, line) ==
    IF ok THEN AdvancePosition(x, line) ELSE <<x, line>>

\* VicOutput built from the counters after they advanced.
VicOutputAfterAdvance(x, line, color) ==
    [x |-> (x + 1) % RASTER_LENGTH,
     raster_line |-> IF x + 1 = RASTER_LENGTH THEN (line + 1) % TOTAL_HEIGHT
                     ELSE line,
     color |-> color]

\* The VicOutput built by Vic::tick.
VicOutput(x, line, color) == [x |-> x, raster_line |-> line, color |-> color]

\* BorrowEvents with the RefMut kept alive after the read.
BorrowEventsLeaked(trace) ==
    IF \E i \in 1..Len(trace) : trace[i][1] = "color"
    THEN <<"borrow_mut">>
    ELSE <<>>

\* What the reads of one background_tick do to the RefCell of the color
\* memory: the read of the color table goes through borrow_mut(), and the
\* RefMut, a temporary, is dropped when the statement ends, also when the ?
\* operator returns the ReadError.  The graphics memory is owned (a Box).
BorrowEvents(trace) ==
    IF \E i \in 1..Len(trace) : trace[i][1] = "color"
    THEN <<"borrow_mut", "drop">>
    ELSE <<>>

\* The holders of a RefMut after the Vic performed the events.
RECURSIVE AfterBorrows(_, _)
AfterBorrows(holders, events) ==
    IF events = <<>> THEN holders
    ELSE IF Head(events) = "borrow_mut"
    THEN AfterBorrows(Append(holders, "vic"), Tail(events))
    ELSE AfterBorrows(SubSeq(holders, 1, Len(holders) - 1), Tail(events))

\* Vic::tick.  A failed background_tick returns its ReadError at once (the ?
\* operator), before the output is built and before the position advances.
\* borrow_mut() panics when another RefMut of the color memory is alive.
Tick ==
    \E window \in {InDisplayWindow(x_counter, raster_counter)} :
    \E bt \in {IF window THEN BackgroundTick
                ELSE [ok |-> TRUE, reads |-> <<>>]} :
    \E next \in {PositionAfterTick(bt.ok, x_counter, raster_counter)} :
    \E events \in {BorrowEvents(bt.reads)} :
        IF events # <<>> /\ color_borrow # <<>>
        THEN /\ result' = [op |-> "tick", ok |-> FALSE,
                           panic |-> "already borrowed"]
             /\ reads' = SubSeq(bt.reads, 1, 2)
             /\ UNCHANGED <<memories, registers, position, cursor,
                            last_pixel, ticks, written, budget, debugger,
                            atari>>
        ELSE IF window /\ ~bt.ok
        THEN /\ result' = [op |-> "tick", ok |-> FALSE, error |-> bt.error]
             /\ reads' = bt.reads
             /\ x_counter' = next[1]
             /\ raster_counter' = next[2]
             /\ color_borrow' = AfterBorrows(color_borrow, events)
             /\ UNCHANGED <<graphics_memory, color_memory, registers, cursor,
                            last_pixel, ticks, written, budget, debugger,
                            atari>>
        ELSE /\ result' =
                    [op |-> "tick", ok |-> TRUE,
                     output |-> VicOutput(x_counter, raster_counter,
                         IF window THEN bt.color ELSE reg_border_color),
                     after |-> written]
             /\ written' = <<>>
             /\ reads' = bt.reads
             /\ last_pixel' = <<result'.output.x, result'.output.raster_line>>
             /\ graphics_row' = IF window THEN bt.cursor[1] ELSE graphics_row
             /\ graphics_column' =
                    IF window THEN bt.cursor[2] ELSE graphics_column
             /\ character_offset' =
                    IF window THEN bt.cursor[3] ELSE character_offset
             /\ graphics_mask' = IF window THEN bt.cursor[4] ELSE graphics_mask
             /\ x_counter' = next[1]
             /\ raster_counter' = next[2]
             /\ ticks' = (ticks + 1) % FRAME_TICKS
             /\ color_borrow' = AfterBorrows(color_borrow, events)
             /\ UNCHANGED <<graphics_memory, color_memory, registers, budget,
                            debugger, atari>>

\* RegisterAt with every address from BACKGROUND_COLOR_0 on selecting the
\* background register.
RegisterAtRange(address) ==
    IF address = BORDER_COLOR THEN "border"
    ELSE IF address >= BACKGROUND_COLOR_0 THEN "background"
    ELSE "none"

\* RegisterAt with the two register addresses exchanged.
RegisterAtSwapped(address) ==
    IF address = BORDER_COLOR THEN "background"
    ELSE IF address = BACKGROUND_COLOR_0 THEN "border"
    ELSE "none"

\* The match of Write for Vic: the register an address selects, if any.
RegisterAt(address) ==
    IF address = BORDER_COLOR THEN "border"
    ELSE IF address = BACKGROUND_COLOR_0 THEN "background"
    ELSE "none"

\* StoredByte saturating at the largest 4-bit color.
StoredByteClamped(value) == IF value > 15 THEN 15 ELSE value

\* StoredByte masked to the 4 bits of a color.
StoredByteMasked(value) == value % 16

\* The byte a register write stores.
StoredByte(value) == value

\* Write for Vic: write(address, value)
Write(address, value) ==
    \E register \in {RegisterAt(address)} :
    /\ reg_border_color' =
          IF register = "border" THEN StoredByte(value) ELSE reg_border_color
    /\ reg_background_color' =
          IF register = "background" THEN StoredByte(value)
          ELSE reg_background_color
    /\ result' =
          IF register = "none"
          THEN [op |-> "write", address |-> address, value |-> value,
                ok |-> FALSE,
                error |-> [address |-> address, value |-> value]]
          ELSE [op |-> "write", address |-> address, value |-> value,
                ok |-> TRUE]
    /\ written' =
          IF result'.ok THEN Append(written, <<address, value>>) ELSE written
    /\ UNCHANGED <<memories, position, cursor, reads, last_pixel, ticks, budget,
                   debugger, atari>>

\* Read with the two color registers readable.
ReadReturnsRegister(address) ==
    /\ result' =
          IF RegisterAt(address) = "border"
          THEN [op |-> "read", address |-> address, ok |-> TRUE,
                value |-> reg_border_color]
          ELSE IF RegisterAt(address) = "background"
          THEN [op |-> "read", address |-> address, ok |-> TRUE,
                value |-> reg_background_color]
          ELSE [op |-> "read", address |-> address, ok |-> FALSE,
                error |-> [address |-> address]]
    /\ UNCHANGED <<memories, registers, position, cursor, reads, last_pixel,
                   ticks, written, budget, debugger, atari>>

\* Read for Vic: read(address)
Read(address) ==
    /\ result' = [op |-> "read", address |-> address, ok |-> FALSE,
                  error |-> [address |-> address]]
    /\ UNCHANGED <<memories, registers, position, cursor, reads, last_pixel,
                   ticks, written, budget, debugger, atari>>

\* RasterLineToScreenY anchored at the first line of the display window.
RasterLineToScreenYFromWindow(index) ==
    (index + TOTAL_HEIGHT - DISPLAY_WINDOW_FIRST_LINE) % TOTAL_HEIGHT

\* raster_line_to_screen_y(index)
RasterLineToScreenY(index) ==
    (index + TOTAL_HEIGHT - TOP_BORDER_FIRST_LINE) % TOTAL_HEIGHT

\* The consumer of the pixel stream converts the raster line of the pixel
\* it was handed.
ConvertRasterLine ==
    /\ result.op = "tick"
    /\ result.ok
    /\ result' = [op |-> "raster_line_to_screen_y",
                  index |-> result.output.raster_line,
                  value |-> RasterLineToScreenY(result.output.raster_line)]
    /\ UNCHANGED <<memories, registers, position, cursor, reads, last_pixel,
                   ticks, written, budget, debugger, atari>>

\* The bus stores a byte into the graphics memory (SimpleRam::write).
PokeGraphics(address, value) ==
    /\ budget > 0
    /\ budget' = budget - 1
    /\ graphics_memory' = MemWrite(graphics_memory, address, value)
    /\ result' = [op |-> "poke", address |-> address, value |-> value,
                  ok |-> TRUE]
    /\ UNCHANGED <<color_memory, color_borrow, registers, position, cursor,
                   reads, last_pixel, ticks, written, debugger, atari>>

\* The bus stores a byte into the shared color memory (SimpleRam::write).
PokeColor(address, value) ==
    /\ budget > 0
    /\ budget' = budget - 1
    /\ color_memory' = MemWrite(color_memory, address, value)
    /\ result' = [op |-> "poke", address |-> address, value |-> value,
                  ok |-> TRUE]
    /\ UNCHANGED <<graphics_memory, color_borrow, registers, position,
                   cursor, reads, last_pixel, ticks, written, debugger, atari>>

\* The memory map changes so that every address of both memories is
\* supported.
MapAll ==
    /\ graphics_memory.bad # {} \/ color_memory.bad # {}
    /\ graphics_memory' = [graphics_memory EXCEPT !.bad = {}]
    /\ color_memory' = [color_memory EXCEPT !.bad = {}]
    /\ result' = [op |-> "map", ok |-> TRUE]
    /\ UNCHANGED <<color_borrow, registers, position, cursor, reads,
                   last_pixel, ticks, written, budget, debugger, atari>>

\* The last call of tick panicked in borrow_mut(): the Vic is gone.
Crashed == result.op = "tick" /\ "panic" \in DOMAIN result

\* Another holder of the Rc calls color_memory.borrow_mut() and keeps the
\* RefMut; the call panics when a RefMut is alive.
TakeColor ==
    /\ ~Crashed
    /\ IF color_borrow = <<>>
       THEN /\ color_borrow' = <<"bus">>
            /\ result' = [op |-> "borrow_mut", ok |-> TRUE]
       ELSE /\ color_borrow' = color_borrow
            /\ result' = [op |-> "borrow_mut", ok |-> FALSE,
                          panic |-> "already borrowed"]
    /\ UNCHANGED <<graphics_memory, color_memory, registers, position,
                   cursor, reads, last_pixel, ticks, written, budget,
                   debugger, atari>>

\* The holder stores a byte through its RefMut (color_memory.bytes[a] = v).
StoreTaken(address, value) ==
    /\ color_borrow = <<"bus">>
    /\ color_memory' = MemWrite(color_memory, address, value)
    /\ result' = [op |-> "store_taken", address |-> address,
                  value |-> value, ok |-> TRUE]
    /\ UNCHANGED <<graphics_memory, color_borrow, registers, position,
                   cursor, reads, last_pixel, ticks, written, budget,
                   debugger, atari>>

\* The RefMut of the holder goes out of scope.
DropTaken ==
    /\ color_borrow = <<"bus">>
    /\ color_borrow' = <<>>
    /\ result' = [op |-> "drop", ok |-> TRUE]
    /\ UNCHANGED <<graphics_memory, color_memory, registers, position,
                   cursor, reads, last_pixel, ticks, written, budget,
                   debugger, atari>>

(***************************************************************************)
(* Debugger (common/src/debugger/mod.rs) on the adapter of its tests: two  *)
(* queues.  An incoming item is a request [kind, seq], a message of a kind *)
(* the debugger does not support, or an error of the adapter.              *)
(***************************************************************************)

\* Everything but the debugger, its adapter and the result of the last call.
machine ==
    <<memories, registers, position, cursor, reads, last_pixel, ticks,
      written, budget, atari>>

\* InitializeResponse { seq: -1, request_seq: req.seq, ... }
InitializeResponse(req) ==
    [kind |-> "Initialize", seq |-> -1, request_seq |-> req.seq,
     type |-> "response", command |-> "initialize", success |-> TRUE]

\* InitializedEvent { seq: -1, ... }
InitializedEvent ==
    [kind |-> "Initialized", seq |-> -1, type |-> "event",
     event |-> "initialized"]

\* SetExceptionBreakpointsResponse { seq: -1, request_seq: req.seq, ... }
SetExceptionBreakpointsResponse(req) ==
    [kind |-> "SetExceptionBreakpoints", seq |-> -1, request_seq |-> req.seq,
     type |-> "response", command |-> "set_exception_breakpoints",
     success |-> TRUE]

\* AttachResponse with the placeholder left in request_seq.
AttachResponseUncorrelated(req) ==
    [kind |-> "Attach", seq |-> -1, request_seq |-> -1,
     type |-> "response", command |-> "attach", success |-> TRUE]

\* AttachResponse { seq: -1, request_seq: req.seq, ... }
AttachResponse(req) ==
    [kind |-> "Attach", seq |-> -1, request_seq |-> req.seq,
     type |-> "response", command |-> "attach", success |-> TRUE]

\* StoppedEvent { seq: -1, body: StoppedEventBody { reason: "entry", ... } }
StoppedEvent ==
    [kind |-> "Stopped", seq |-> -1, type |-> "event", event |-> "stopped",
     reason |-> "entry"]

\* Debugger::next_sequence_number: the incremented counter, which is also
\* the number returned.
NextSequenceNumber(number) == number + 1

\* SendMessage numbering the responses only.
SendMessageEventsUnnumbered(d, message) ==
    LET numbered == message.type = "response"
        number == IF numbered THEN NextSequenceNumber(d.sequence_number)
                  ELSE d.sequence_number
        sent == IF numbered THEN [message EXCEPT !.seq = number] ELSE message
    IN  [d EXCEPT !.sequence_number = number,
                  !.sender_queue = Append(@, sent),
                  !.calls = Append(@, [call |-> "send_message",
                                       message |-> sent])]

\* Debugger::send_message on the debugger d: every kind of message gets the
\* next sequence number, then goes to the adapter, which queues it.
SendMessage(d, message) ==
    LET number == NextSequenceNumber(d.sequence_number)
        sent == [message EXCEPT !.seq = number]
    IN  [d EXCEPT !.sequence_number = number,
                  !.sender_queue = Append(@, sent),
                  !.calls = Append(@, [call |-> "send_message",
                                       message |-> sent])]

\* Reply with an attach request answered by its response alone.
ReplyWithoutStop(d, message) ==
    CASE message.kind = "Initialize" ->
            SendMessage(SendMessage(d, InitializeResponse(message)),
                        InitializedEvent)
      [] message.kind = "SetExceptionBreakpoints" ->
            SendMessage(d, SetExceptionBreakpointsResponse(message))
      [] message.kind = "Attach" ->
            SendMessage(d, AttachResponse(message))
      [] OTHER -> d

\* The arms of the match of process_meessages for a received message.
Reply(d, message) ==
    CASE message.kind = "Initialize" ->
            SendMessage(SendMessage(d, InitializeResponse(message)),
                        InitializedEvent)
      [] message.kind = "SetExceptionBreakpoints" ->
            SendMessage(d, SetExceptionBreakpointsResponse(message))
      [] message.kind = "Attach" ->
            SendMessage(SendMessage(d, AttachResponse(message)),
                        StoppedEvent)
      [] OTHER -> d

\* TryReceiveMessage delivering the newest item of the queue.
TryReceiveMessageNewest(queue) ==
    IF queue = <<>> THEN [kind |-> "Empty"] ELSE queue[Len(queue)]

\* FakeDebugAdapter::try_receive_message: the front of the receiver queue,
\* or Err(TryRecvError::Empty).
TryReceiveMessage(queue) ==
    IF queue = <<>> THEN [kind |-> "Empty"] ELSE Head(queue)

\* The loop of process_meessages on the debugger d: it returns when the
\* adapter has nothing to deliver and panics on any other error.
RECURSIVE ProcessLoop(_)
ProcessLoop(d) ==
    LET item == TryReceiveMessage(d.receiver_queue)
        received ==
            [d EXCEPT !.receiver_queue = IF @ = <<>> THEN @ ELSE Tail(@),
                      !.calls = Append(@, [call |-> "try_receive_message",
                                           returned |-> item])]
    IN  IF item.kind = "Empty" THEN [received EXCEPT !.ok = TRUE]
        ELSE IF item.kind = "Err" THEN [received EXCEPT !.ok = FALSE]
        ELSE ProcessLoop(Reply(received, item))

\* The last call of process_meessages panicked: the debugger is gone.
Panicked == result.op = "process_meessages" /\ ~result.ok

\* Debugger::process_meessages
ProcessMessages ==
    /\ ~Panicked
    /\ \E d \in {ProcessLoop([sequence_number |-> sequence_number,
                               receiver_queue |-> receiver_queue,
                               sender_queue |-> sender_queue,
                               calls |-> <<>>, ok |-> TRUE])} :
          /\ sequence_number' = d.sequence_number
          /\ receiver_queue' = d.receiver_queue
          /\ sender_queue' = d.sender_queue
          /\ calls' = d.calls
          /\ result' = [op |-> "process_meessages", ok |-> d.ok]
    /\ UNCHANGED <<incoming, machine>>

\* push_incoming: the client of the adapter queues an item for the debugger.
PushIncoming(item) ==
    /\ ~Panicked
    /\ receiver_queue' = Append(receiver_queue, item)
    /\ incoming' = Append(incoming, item)
    /\ result' = [op |-> "push_incoming"]
    /\ UNCHANGED <<sequence_number, sender_queue, calls, machine>>

(***************************************************************************)
(* AtariRam (ya6502/src/memory.rs): 128 bytes, mirrored over the whole     *)
(* address space.                                                          *)
(***************************************************************************)

\* AtariRam::SIZE
SIZE == 128

\* Everything but the Atari RAM and the result of the last call.
ram_frame ==
    <<memories, registers, position, cursor, reads, last_pixel, ticks,
      written, budget, debugger, atari_rom>>

\* a & b on the 16 bits of an address
BitAnd16(a, b) == BitAndN(a, b, 16)

\* RamIndex with a mask one bit too wide.
RamIndexWide(address) == BitAnd16(address, 255)

\* address as usize & 0b0111_1111
RamIndex(address) == BitAnd16(address, 127)

\* An AtariRam holding the bytes of an image: image 0 is AtariRam::new, the
\* others are what a program has left in the 128 cells.
AtariRamOf(image) ==
    [built |-> TRUE, bytes |-> [i \in 0..(SIZE - 1) |-> ImageByte(image, i)]]

\* Read for AtariRam: read(address).  Indexing the array outside its 128
\* cells panics.
RamRead(address) ==
    \E index \in {RamIndex(address)} :
    /\ result' =
          IF index \in DOMAIN atari_ram.bytes
          THEN [op |-> "ram_read", address |-> address, ok |-> TRUE,
                value |-> atari_ram.bytes[index],
                after |-> IF result.op = "ram_write"
                          THEN <<result.address, result.value>> ELSE <<>>]
          ELSE [op |-> "ram_read", address |-> address, ok |-> FALSE,
                panic |-> index]
    /\ UNCHANGED <<atari_ram, ram_frame>>

\* Write for AtariRam: write(address, value)
RamWrite(address, value) ==
    \E index \in {RamIndex(address)} :
    /\ IF index \in DOMAIN atari_ram.bytes
       THEN /\ atari_ram' =
                  [atari_ram EXCEPT !.bytes = [@ EXCEPT ![index] = value]]
            /\ result' = [op |-> "ram_write", address |-> address,
                          value |-> value, ok |-> TRUE]
       ELSE /\ atari_ram' = atari_ram
            /\ result' = [op |-> "ram_write", address |-> address,
                          value |-> value, ok |-> FALSE, panic |-> index]
    /\ UNCHANGED ram_frame

(***************************************************************************)
(* AtariRom (ya6502/src/memory.rs): 2048 or 4096 bytes, mirrored.  A byte  *)
(* slice is described by its length and the image its bytes come from.     *)
(***************************************************************************)

\* Everything but the Atari ROM and the result of the last call.
rom_frame ==
    <<memories, registers, position, cursor, reads, last_pixel, ticks,
      written, budget, debugger, atari_ram>>

\* bytes[index] of a program image: image 0 is all zero but for a 1 in cell
\* 5, the others differ from one 256-byte page to the next.
ProgramByte(image, index) ==
    IF image = 0 THEN (IF index = 5 THEN 1 ELSE 0)
    ELSE (index * 7 + (index \div U8) * 3 + image) % U8

\* ValidSize accepting every length from 2048 to 4096.
ValidSizeInRange(length) == length >= 2048 /\ length <= 4096

\* The match of AtariRom::new on bytes.len()
ValidSize(length) == length = 2048 \/ length = 4096

\* AddressMask with the mask of a 4096-byte ROM for every ROM.
AddressMaskOf4K(length) == 4095

\* The address mask AtariRom::new gives a ROM of a supported length.
AddressMask(length) == IF length = 4096 THEN 4095 ELSE 2047

\* AtariRom::new(bytes)
RomNew(bytes) ==
    /\ IF ValidSize(bytes.len)
       THEN /\ atari_rom' = [built |-> TRUE, bytes |-> bytes,
                             address_mask |-> AddressMask(bytes.len)]
            /\ result' = [op |-> "rom_new", size |-> bytes.len, ok |-> TRUE]
       ELSE /\ atari_rom' = atari_rom
            /\ result' = [op |-> "rom_new", size |-> bytes.len, ok |-> FALSE,
                          error |-> [size |-> bytes.len]]
    /\ UNCHANGED rom_frame

\* Read for AtariRom: read(address).  Indexing the vector beyond its length
\* panics.
RomRead(address) ==
    \E index \in {BitAnd16(address, atari_rom.address_mask)} :
    /\ result' =
          IF index < atari_rom.bytes.len
          THEN [op |-> "rom_read", address |-> address, ok |-> TRUE,
                value |-> ProgramByte(atari_rom.bytes.image, index)]
          ELSE [op |-> "rom_read", address |-> address, ok |-> FALSE,
                panic |-> index]
    /\ UNCHANGED <<atari_rom, rom_frame>>

(***************************************************************************)
(* The host.  It drives the pixel clock and, like the CPU it stands for,   *)
(* gets the bus only on some of the pixel ticks of a line.                 *)
(***************************************************************************)

\* The host accesses the bus on every HostPeriod-th pixel of every
\* HostPeriod-th raster line.
HostPeriod == 52

\* The number of register writes the host performs between two pixels.
MaxBurst == 2

\* The number of bus writes to the memories one behaviour may contain.
MaxPokes == 1

\* The largest image number the graphics memory is constructed with.
MaxImage == 1

\* The bytes the host writes: the initial value of a register, and a byte
\* that does not fit in 4 bits.
Values == {0, 159}

\* The addresses the host writes to and reads from: the two registers, their
\* neighbours, and the two ends of the address space.
Addresses ==
    {0, BORDER_COLOR - 1, BORDER_COLOR, BACKGROUND_COLOR_0,
     BACKGROUND_COLOR_0 + 1, U16 - 1}

HostTurn ==
    /\ x_counter % HostPeriod = 0
    /\ raster_counter % HostPeriod = 0

\* Vic::new on freshly constructed memories; the color memory never has the
\* contents of the graphics memory.
Init ==
    /\ InitVic
    /\ \E image \in 0..MaxImage : graphics_memory = NewMemory(image)
    /\ color_memory = NewMemory(MaxImage + 1)
    /\ budget = 0
    /\ InitDebugger
    /\ NoAtari

WriteRegister ==
    \E a \in Addresses, v \in Values :
        HostTurn /\ Len(written) < MaxBurst /\ Write(a, v)

ReadRegister == \E a \in Addresses : HostTurn /\ Read(a)

Next == Tick \/ WriteRegister \/ ReadRegister

Spec == Init /\ [][Next]_vars

(***************************************************************************)
(* The bus: the CPU stores into the memories while the Vic scans them.     *)
(***************************************************************************)

\* The byte the bus stores: as a glyph index it selects glyph 90, as a
\* bitmap row it is 01011010, as a color it does not fit in 4 bits.
PokeValues == {90}

\* Cell 10 of the character matrix, and bitmap row 1 of the glyph that
\* image 1 puts there (glyph 127).
GraphicsPokes == {CHARACTER_MATRIX_BASE + 10, CHARACTER_BITMAP_BASE + 8 * 127 + 1}

\* The color of the same cell.
ColorPokes == {COLOR_TABLE_BASE + 10}

InitBus ==
    /\ InitVic
    /\ graphics_memory = NewMemory(1)
    /\ color_memory = NewMemory(MaxImage + 1)
    /\ budget = MaxPokes
    /\ InitDebugger
    /\ NoAtari

WriteBackground ==
    \E v \in Values :
        HostTurn /\ Len(written) < MaxBurst /\ Write(BACKGROUND_COLOR_0, v)

StoreGraphics ==
    \E a \in GraphicsPokes, v \in PokeValues : HostTurn /\ PokeGraphics(a, v)

StoreColor ==
    \E a \in ColorPokes, v \in PokeValues : HostTurn /\ PokeColor(a, v)

NextBus == Tick \/ WriteBackground \/ StoreGraphics \/ StoreColor

SpecBus == InitBus /\ [][NextBus]_vars

(***************************************************************************)
(* Faults: memories whose Read does not support every address.             *)
(***************************************************************************)

\* The unsupported addresses of the graphics memory: none, a cell of the
\* character matrix, or a bitmap row of the glyph of cell 1 (glyph 50).
GraphicsFaults ==
    {{}, {CHARACTER_MATRIX_BASE + 2}, {CHARACTER_BITMAP_BASE + 8 * 50 + 1}}

\* The unsupported addresses of the color memory: none, or the color of
\* a cell.
ColorFaults == {{}, {COLOR_TABLE_BASE}, {COLOR_TABLE_BASE + 2}}

InitFault ==
    /\ InitVic
    /\ \E bad \in GraphicsFaults :
          graphics_memory = [NewMemory(1) EXCEPT !.bad = bad]
    /\ \E bad \in ColorFaults :
          color_memory = [NewMemory(MaxImage + 1) EXCEPT !.bad = bad]
    /\ budget = 0
    /\ InitDebugger
    /\ NoAtari

WriteBorder ==
    \E v \in Values :
        HostTurn /\ Len(written) < MaxBurst /\ Write(BORDER_COLOR, v)

Remap == MapAll

NextFault == Tick \/ WriteBorder \/ Remap

SpecFault == InitFault /\ [][NextFault]_vars

(***************************************************************************)
(* Stores: the host writes any byte into either color register.            *)
(***************************************************************************)

\* Every value of a u8.
Bytes == 0..(U8 - 1)

\* The host keeps the pixel clock running while both registers hold one of
\* Values, and until the pixel that follows a store has been emitted.
Watching ==
    \/ written # <<>>
    \/ (reg_border_color \in Values /\ reg_background_color \in Values)

InitStore ==
    /\ InitVic
    /\ graphics_memory = NewMemory(0)
    /\ color_memory = NewMemory(MaxImage + 1)
    /\ budget = 0
    /\ InitDebugger
    /\ NoAtari

WatchedTick == Watching /\ Tick

StoreRegister ==
    /\ HostTurn
    /\ written = <<>>
    /\ \E a \in {BORDER_COLOR, BACKGROUND_COLOR_0}, v \in Bytes : Write(a, v)

NextStore == WatchedTick \/ StoreRegister

SpecStore == InitStore /\ [][NextStore]_vars

(***************************************************************************)
(* Loads: the host reads any address of the register interface.            *)
(***************************************************************************)

\* Every value of a u16.
Words == 0..(U16 - 1)

\* The host reads on one of its turns per raster line: in the blanking
\* interval of line 0, inside the display window further down.
ReadTurn == HostTurn /\ x_counter = 4 * raster_counter

\* The host runs the pixel clock through the lines of its first two turns.
LoadLines == raster_counter <= HostPeriod

InitLoad ==
    /\ InitVic
    /\ graphics_memory = NewMemory(0)
    /\ color_memory = NewMemory(MaxImage + 1)
    /\ budget = 0
    /\ InitDebugger
    /\ NoAtari

WriteColor ==
    /\ HostTurn
    /\ written = <<>>
    /\ \E a \in {BORDER_COLOR, BACKGROUND_COLOR_0}, v \in Values : Write(a, v)

LoadRegister ==
    /\ ReadTurn
    /\ result.op # "read"
    /\ \E a \in Words : Read(a)

LoadTick == LoadLines /\ Tick

NextLoad == LoadTick \/ WriteColor \/ LoadRegister

SpecLoad == InitLoad /\ [][NextLoad]_vars

(***************************************************************************)
(* The screen: the consumer of the pixels places each one on a screen row. *)
(***************************************************************************)

InitScreen ==
    /\ InitVic
    /\ graphics_memory = NewMemory(0)
    /\ color_memory = NewMemory(MaxImage + 1)
    /\ budget = 0
    /\ InitDebugger
    /\ NoAtari

NextScreen == Tick \/ ConvertRasterLine

SpecScreen == InitScreen /\ [][NextScreen]_vars

(***************************************************************************)
(* The debugger's client: it queues requests and lets the debugger run.    *)
(***************************************************************************)

\* The number of items the client queues in one behaviour.
MaxIncoming == 3

\* The kinds of message the client sends: the three requests the debugger
\* answers, and one it does not support.
Kinds == {"Initialize", "SetExceptionBreakpoints", "Attach", "Next"}

\* The sequence numbers the client gives its requests; 1 and 2 are also
\* numbers the debugger gives its own messages.
RequestSeqs == {1, 2, 8}

InitClient ==
    /\ InitVic
    /\ graphics_memory = NewMemory(0)
    /\ color_memory = NewMemory(MaxImage + 1)
    /\ budget = 0
    /\ InitDebugger
    /\ NoAtari

SendRequest ==
    /\ Len(incoming) < MaxIncoming
    /\ \E kind \in Kinds, seq \in RequestSeqs :
          PushIncoming([kind |-> kind, seq |-> seq])

Disconnect ==
    /\ Len(incoming) < MaxIncoming
    /\ PushIncoming([kind |-> "Err"])

NextClient == SendRequest \/ Disconnect \/ ProcessMessages

SpecClient == InitClient /\ [][NextClient]_vars

(***************************************************************************)
(* The Atari bus on its RAM: a store anywhere in the address space, and    *)
(* loads from the mirrors and the neighbours of the address stored to.     *)
(***************************************************************************)

\* The addresses the bus loads from after a store to `address`: the address
\* itself, its mirrors in the next and in the last image of the RAM, and
\* the next address, which selects another cell.
Probes(address) ==
    {address, (address + SIZE) % U16, U16 - SIZE + (address % SIZE),
     (address + 1) % U16}

InitRam ==
    /\ InitVic
    /\ graphics_memory = NewMemory(0)
    /\ color_memory = NewMemory(MaxImage + 1)
    /\ budget = 0
    /\ InitDebugger
    /\ \E image \in {0, 1} : atari_ram = AtariRamOf(image)
    /\ atari_rom = [built |-> FALSE]

StoreRam ==
    /\ result.op = "new"
    /\ \E a \in Words, v \in Values : RamWrite(a, v)

LoadRam ==
    \/ /\ result.op = "new"
       /\ \E b \in Words : RamRead(b)
    \/ /\ result.op = "ram_write"
       /\ result.ok
       /\ \E b \in Probes(result.address) : RamRead(b)

NextRam == StoreRam \/ LoadRam

SpecRam == InitRam /\ [][NextRam]_vars

(***************************************************************************)
(* The cartridge: a ROM is made of a program of some length and then read. *)
(***************************************************************************)

\* The longest program a ROM is made of.
MaxRomSize == 4100

InitRom ==
    /\ InitVic
    /\ graphics_memory = NewMemory(0)
    /\ color_memory = NewMemory(MaxImage + 1)
    /\ budget = 0
    /\ InitDebugger
    /\ NoAtari

MakeRom ==
    /\ result.op = "new"
    /\ \E length \in 0..MaxRomSize, image \in {0, 1} :
          RomNew([len |-> length, image |-> image])

LoadRom ==
    /\ result.op = "rom_new"
    /\ result.ok
    /\ \E a \in Words : RomRead(a)

NextRom == MakeRom \/ LoadRom

SpecRom == InitRom /\ [][NextRom]_vars

(***************************************************************************)
(* Stalls: the graphics memory does not support a bitmap row that the scan *)
(* first reads on a host turn, so the host writes and reads registers      *)
(* while the ticks fail.                                                   *)
(***************************************************************************)

\* The unsupported addresses of the graphics memory: bitmap row 1 of the
\* glyph of cell 4 (glyph 161), first read at (156, 52), or of the glyph of
\* cell 30 (glyph 99), first read at (364, 52).
GraphicsStalls ==
    {{CHARACTER_BITMAP_BASE + 8 * 161 + 1}, {CHARACTER_BITMAP_BASE + 8 * 99 + 1}}

InitStall ==
    /\ InitVic
    /\ \E bad \in GraphicsStalls :
          graphics_memory = [NewMemory(1) EXCEPT !.bad = bad]
    /\ color_memory = NewMemory(MaxImage + 1)
    /\ budget = 0
    /\ InitDebugger
    /\ NoAtari

NextStall == Tick \/ WriteRegister \/ ReadRegister \/ Remap

SpecStall == InitStall /\ [][NextStall]_vars

(***************************************************************************)
(* The scan: every address of both memories is supported and the host     *)
(* keeps the pixel clock running, writing the border color on its turns.   *)
(***************************************************************************)

InitScan ==
    /\ InitVic
    /\ graphics_memory = NewMemory(1)
    /\ color_memory = NewMemory(MaxImage + 1)
    /\ budget = 0
    /\ InitDebugger
    /\ NoAtari

NextScan == Tick \/ WriteBorder

\* The host never stops calling tick (the loop of tests::grab_frame).
SpecScan == InitScan /\ [][NextScan]_vars /\ WF_vars(Tick)

(***************************************************************************)
(* Sharing: another holder of the color memory borrows it between ticks,   *)
(* stores through the borrow, and releases it, or keeps it while the Vic   *)
(* ticks.                                                                  *)
(***************************************************************************)

\* The holder takes the color memory when the host has the bus, or when a
\* tick has just failed.
HolderTurn == HostTurn \/ (result.op = "tick" /\ ~result.ok)

InitShare ==
    /\ InitVic
    /\ graphics_memory = NewMemory(1)
    /\ color_memory =
          [NewMemory(MaxImage + 1) EXCEPT !.bad = {COLOR_TABLE_BASE + 2}]
    /\ budget = 0
    /\ InitDebugger
    /\ NoAtari

SharedTick == ~Crashed /\ Tick

\* The holder does not borrow while its own RefMut is alive.
Take ==
    /\ HolderTurn
    /\ \A i \in 1..Len(color_borrow) : color_borrow[i] # "bus"
    /\ TakeColor

\* The holder gives cell 0 the color 10, once.
Store ==
    /\ COLOR_TABLE_BASE \notin DOMAIN color_memory.poked
    /\ StoreTaken(COLOR_TABLE_BASE, 10)

NextShare == SharedTick \/ Take \/ Store \/ DropTaken \/ Remap

SpecShare == InitShare /\ [][NextShare]_vars

(***************************************************************************)
(* Properties.                                                             *)
(***************************************************************************)

\* The last call was a tick that returned a VicOutput.
Emitted == result.op = "tick" /\ result.ok

\* The last call was a tick that returned a ReadError.
Failed == result.op = "tick" /\ ~result.ok

\* This step is a successful tick.
TickStep == ticks' # ticks

\* Bit n (0 = least significant) of a byte.
Bit(byte, n) == (byte \div (2 ^ n)) % 2

\* The color of the display window pixel at raster line `line` and
\* horizontal position `x`, decoded from the contents of the two memories.
GlyphColor(x, line) ==
    LET dy == line - 51
        dx == x - 124
        cell == 40 * (dy \div 8) + (dx \div 8)
        g == ByteAt(graphics_memory, 1024 + cell)
        b == ByteAt(graphics_memory, 4096 + 8 * g + (dy % 8))
    IN  IF Bit(b, 7 - (dx % 8)) = 1
        THEN ByteAt(color_memory, 55296 + cell)
        ELSE reg_background_color

\* C1: every pixel emitted for a position inside the display window (raster
\* line in [51,251), x in [124,444)) has the color of its cell in the color
\* table when the bit of the glyph's bitmap row is 1, most significant bit
\* first, and the background color 0 register when it is 0, with the memory
\* contents and the register value as they are at that tick.
C1_GlyphDecoding ==
    (/\ Emitted
     /\ result.output.raster_line >= 51 /\ result.output.raster_line < 251
     /\ result.output.x >= 124 /\ result.output.x < 444)
    => result.output.color =
          GlyphColor(result.output.x, result.output.raster_line)

\* C1 witness: a foreground pixel of cell 10 is emitted with the color the
\* bus stored into the color table after construction.
C1_Witness ==
    /\ Emitted
    /\ result.output.raster_line \in 51..58
    /\ result.output.x \in 204..211
    /\ (55296 + 10) \in DOMAIN color_memory.poked
    /\ result.output.color = 90
    /\ reg_background_color # 90

\* C2: the raster position never drifts: both counters stay in range, they
\* encode the number of successful ticks modulo the frame length, and the
\* raster counter changes exactly when x_counter wraps from 519 to 0.
C2_PositionNeverDrifts ==
    /\ [](/\ x_counter >= 0 /\ x_counter < 520
          /\ raster_counter >= 0 /\ raster_counter < 262
          /\ raster_counter * 520 + x_counter = ticks)
    /\ [][(raster_counter' # raster_counter)
            <=> (TickStep /\ x_counter = 519 /\ x_counter' = 0)]_vars

\* C2 witness: x_counter has wrapped from 519 to 0 and the raster counter
\* has changed, with register writes on the way.
C2_Witness ==
    /\ raster_counter = 1
    /\ x_counter = 0
    /\ last_pixel = <<519, 0>>
    /\ reg_border_color = 159
    /\ Emitted

\* The row-major successor of a raster position.
Successor(pixel) ==
    LET n == (pixel[2] * 520 + pixel[1] + 1) % (520 * 262)
    IN  <<n % 520, n \div 520>>

\* C3: a successful tick reports the position the counters had before the
\* call; the first one reports (0,0), every later one the row-major
\* successor of the position the previous one reported.
C3_ReportsPreAdvancePosition ==
    [][TickStep =>
        /\ result'.op = "tick" /\ result'.ok
        /\ result'.output.x = x_counter
        /\ result'.output.raster_line = raster_counter
        /\ IF last_pixel = <<>>
           THEN result'.output.x = 0 /\ result'.output.raster_line = 0
           ELSE <<result'.output.x, result'.output.raster_line>>
                    = Successor(last_pixel)]_vars

\* C3 witness: the tick after the one that reported the last pixel of
\* raster line 0 has reported the first pixel of raster line 1.
C3_Witness ==
    /\ Emitted
    /\ result.output.x = 0
    /\ result.output.raster_line = 1
    /\ x_counter = 1
    /\ raster_counter = 1

\* C4: a tick at a position outside the display window (raster line outside
\* [51,251) or x outside [124,444), blanking intervals included) succeeds,
\* whatever the memories support, and its color is the current value of the
\* border color register.
C4_BorderOutsideWindow ==
    [][(/\ result'.op = "tick"
        /\ \/ raster_counter < 51 \/ raster_counter >= 251
           \/ x_counter < 124 \/ x_counter >= 444)
       => (/\ result'.ok
           /\ result'.output.color = reg_border_color)]_vars

\* C4 witness: with an unsupported address in the graphics memory, the last
\* pixel of the left border on the first line of the display window has
\* been emitted in the border color the host wrote.
C4_Witness ==
    /\ Emitted
    /\ result.output.raster_line = 51
    /\ result.output.x = 123
    /\ result.output.color = 159
    /\ reg_border_color = 159
    /\ graphics_memory.bad # {}

\* The value of the last write to `address` in a sequence of register writes.
LastWritten(log, address) ==
    LET at == {i \in 1..Len(log) : log[i][1] = address}
    IN  log[CHOOSE i \in at : \A j \in at : j <= i][2]

WrittenTo(log, address) == \E i \in 1..Len(log) : log[i][1] = address

\* C5: register writes are unbuffered: the pixel that follows successful
\* writes to the border color register, when outside the display window,
\* has the last value written, and so has the pixel that follows writes to
\* the background color 0 register when it is a background pixel of the
\* display window (every pixel of the window, on an all-zero graphics
\* memory).
C5_WritesUnbuffered ==
    Emitted =>
        LET inside ==
                /\ result.output.raster_line >= 51
                /\ result.output.raster_line < 251
                /\ result.output.x >= 124
                /\ result.output.x < 444
        IN  /\ (~inside /\ WrittenTo(result.after, 53280))
                => result.output.color = LastWritten(result.after, 53280)
            /\ (inside /\ graphics_memory.image = 0
                       /\ WrittenTo(result.after, 53281))
                => result.output.color = LastWritten(result.after, 53281)

\* C5 witness: the host wrote 159 and then 0 to the border color register
\* between two ticks, and the next pixel, outside the display window, has
\* color 0.
C5_Witness ==
    /\ Emitted
    /\ result.after = << <<53280, 159>>, <<53280, 0>> >>
    /\ result.output.raster_line = 52
    /\ result.output.x = 52
    /\ result.output.color = 0

\* The number of display window pixels scanned before tick number n of a
\* frame.
WindowPixelsBefore(n) ==
    LET line == n \div 520
        x == n % 520
    IN  IF line < 51 THEN 0
        ELSE IF line >= 251 THEN 200 * 320
        ELSE (line - 51) * 320
                + (IF x < 124 THEN 0 ELSE IF x >= 444 THEN 320 ELSE x - 124)

\* The scan cursor after k glyph bits: <<row, column, offset, mask>>.
CursorAfter(k) ==
    <<40 * ((k \div 2560) % 25), (k \div 8) % 40, (k \div 320) % 8,
      2 ^ (7 - (k % 8))>>

\* C6: after every whole number of frames (136240 successful ticks each)
\* the scan cursor is again (0, 0, 0, 0b1000_0000) and the raster position
\* (0,0); more generally position and cursor are determined by the number
\* of successful ticks modulo 136240, so every reachable pair recurs after
\* 136240 more ticks.
C6_RoundTrip ==
    /\ ticks = 0 =>
          /\ position = <<0, 0>>
          /\ cursor = <<0, 0, 0, 128>>
    /\ position = <<ticks % 520, ticks \div 520>>
    /\ cursor = CursorAfter(WindowPixelsBefore(ticks))

\* C6 witness: the last pixel of a frame has been emitted, that is, 136240
\* ticks have succeeded since construction or since the last such state.
C6_Witness ==
    /\ ticks = 0
    /\ last_pixel = <<519, 261>>
    /\ Emitted

\* C7: on an all-zero graphics memory the visible part (x in [77,492), 415
\* pixels) of every raster line in [51,251) is 47 pixels of the border
\* color, then 320 of the background color, then 48 of the border color,
\* and the visible part of every other line is all border color, in every
\* frame.
C7_LineStructure ==
    (/\ Emitted
     /\ graphics_memory.image = 0
     /\ result.output.x >= 77 /\ result.output.x < 492)
    => LET i == result.output.x - 77
           display == /\ result.output.raster_line >= 51
                      /\ result.output.raster_line < 251
       IN  result.output.color =
              IF display /\ i >= 47 /\ i < 47 + 320
              THEN reg_background_color
              ELSE reg_border_color

\* C7 witness: the first display window pixel of the first display line is
\* emitted in a background color that differs from the border color.
C7_Witness ==
    /\ Emitted
    /\ graphics_memory.image = 0
    /\ result.output.raster_line = 51
    /\ result.output.x = 124
    /\ result.output.color = 159
    /\ reg_background_color = 159
    /\ reg_border_color = 0

\* Is the address of a read supported by the memory it goes to?
Supported(read) ==
    IF read[1] = "graphics" THEN read[2] \notin graphics_memory.bad
    ELSE read[2] \notin color_memory.bad

\* C8: a tick that fails returns the ReadError of the read that failed,
\* carrying that read's address, and no VicOutput; the reads go to the
\* character matrix, then the bitmap table, then the color table, and the
\* failed read is the last one performed.
C8_ReadErrorPropagates ==
    Failed =>
        LET n == Len(reads) IN
        /\ n \in 1..3
        /\ "output" \notin DOMAIN result
        /\ ~Supported(reads[n])
        /\ result.error = [address |-> reads[n][2]]
        /\ \A i \in 1..(n - 1) : Supported(reads[i])
        /\ reads[1][1] = "graphics" /\ reads[1][2] \in 1024..(1024 + 999)
        /\ n >= 2 => (reads[2][1] = "graphics"
                        /\ reads[2][2] \in 4096..(4096 + 2047))
        /\ n >= 3 => (reads[3][1] = "color"
                        /\ reads[3][2] \in 55296..(55296 + 999))

\* C8 witness: the read of the color table fails after the two reads of the
\* graphics memory succeeded.
C8_Witness ==
    /\ Failed
    /\ Len(reads) = 3
    /\ result.error.address = 55296 + 2

\* C9: a tick that returns a ReadError leaves the raster position, the scan
\* cursor and both color registers as they were.
C9_FailedTickChangesNothing ==
    [][(result'.op = "tick" /\ ~result'.ok)
       => (/\ x_counter' = x_counter
           /\ raster_counter' = raster_counter
           /\ graphics_row' = graphics_row
           /\ graphics_column' = graphics_column
           /\ character_offset' = character_offset
           /\ graphics_mask' = graphics_mask
           /\ reg_border_color' = reg_border_color
           /\ reg_background_color' = reg_background_color)]_vars

\* C9 witness: a tick has failed in the middle of a glyph, with a border
\* color written by the host.
C9_Witness ==
    /\ Failed
    /\ graphics_mask = 16
    /\ x_counter = 127
    /\ raster_counter = 51
    /\ reg_border_color = 159

\* C10: a write to an address other than 0xD020 and 0xD021 fails with a
\* WriteError carrying that address and that value, and leaves both color
\* registers, the raster position and the scan cursor as they were.
C10_UnsupportedWrite ==
    [][(/\ result'.op = "write"
        /\ result'.address # 53280
        /\ result'.address # 53281)
       => (/\ ~result'.ok
           /\ result'.error =
                 [address |-> result'.address, value |-> result'.value]
           /\ UNCHANGED <<reg_border_color, reg_background_color>>
           /\ UNCHANGED <<x_counter, raster_counter>>
           /\ UNCHANGED <<graphics_row, graphics_column, character_offset,
                          graphics_mask>>)]_vars

\* C10 witness: a write of 159 to 0xD022 has failed in the middle of a
\* glyph, with both registers holding what the host wrote before.
C10_Witness ==
    /\ result.op = "write"
    /\ ~result.ok
    /\ result.error = [address |-> 53282, value |-> 159]
    /\ reg_border_color = 159
    /\ reg_background_color = 159
    /\ graphics_mask = 8

C12_ReadsAlwaysFail ==
    [][result'.op = "read"
       => (/\ ~result'.ok
           /\ "value" \notin DOMAIN result'
           /\ result'.error = [address |-> result'.address]
           /\ UNCHANGED <<reg_border_color, reg_background_color>>
           /\ UNCHANGED <<x_counter, raster_counter>>
           /\ UNCHANGED <<graphics_row, graphics_column, character_offset,
                          graphics_mask>>
           /\ UNCHANGED <<graphics_memory, color_memory>>)]_vars

\* C12 witness: a read of 0xD020 has failed in the middle of a glyph, right
\* after 159 was written to that register.
C12_Witness ==
    /\ result.op = "read"
    /\ result.address = 53280
    /\ ~result.ok
    /\ result.error = [address |-> 53280]
    /\ written = << <<53280, 159>> >>
    /\ reg_border_color = 159
    /\ graphics_mask = 8

C14_ScreenRow ==
    result.op = "raster_line_to_screen_y" =>
        LET line == result.index
            row == result.value
        IN  /\ row >= 0 /\ row < 262
            /\ row = (line + 262 - 41) % 262
            /\ line = 41 => row = 0
            /\ line \in 41..261 => row = line - 41
            /\ line \in 0..12 => row = 221 + line
            /\ line \in 13..40 => (row = 221 + line /\ row \in 234..261)
            /\ (line \in 41..261 \/ line \in 0..12) <=> row \in 0..233

\* C14 witness: the last pixel of raster line 12, the last visible line in
\* scan order, has been placed on row 233.
C14_Witness ==
    /\ result.op = "raster_line_to_screen_y"
    /\ result.index = 12
    /\ result.value = 233
    /\ last_pixel = <<519, 12>>

\* The items the debugger has received so far, in the order it received
\* them.
Delivered == SubSeq(incoming, 1, Len(incoming) - Len(receiver_queue))

\* What a message handed to the adapter is, its numbers left out.
Shape(message) ==
    IF message.type = "response"
    THEN <<message.kind, "response", message.command, message.success>>
    ELSE IF message.event = "stopped"
    THEN <<message.kind, "event", message.event, message.reason>>
    ELSE <<message.kind, "event", message.event>>

\* The replies a received item calls for.
Expected(item) ==
    IF item.kind = "Initialize"
    THEN << <<"Initialize", "response", "initialize", TRUE>>,
            <<"Initialized", "event", "initialized">> >>
    ELSE IF item.kind = "SetExceptionBreakpoints"
    THEN << <<"SetExceptionBreakpoints", "response",
              "set_exception_breakpoints", TRUE>> >>
    ELSE IF item.kind = "Attach"
    THEN << <<"Attach", "response", "attach", TRUE>>,
            <<"Stopped", "event", "stopped", "entry">> >>
    ELSE <<>>

RECURSIVE ExpectedAll(_)
ExpectedAll(items) ==
    IF items = <<>> THEN <<>>
    ELSE Expected(Head(items)) \o ExpectedAll(Tail(items))

\* C15: the messages the debugger has sent to the adapter are exactly the
\* replies to the messages it has received, in the order it received them:
\* a successful Initialize response and then an Initialized event for an
\* Initialize request, a SetExceptionBreakpoints response for a
\* SetExceptionBreakpoints request, an Attach response and then a Stopped
\* event with reason entry for an Attach request, nothing for anything
\* else; and nothing else is sent.
C15_RepliesInOrder ==
    [i \in 1..Len(sender_queue) |-> Shape(sender_queue[i])]
        = ExpectedAll(Delivered)

\* C15 witness: the initialization sequence, with a message of an
\* unsupported kind in it, has been answered by four messages.
C15_Witness ==
    /\ result.op = "process_meessages"
    /\ result.ok
    /\ receiver_queue = <<>>
    /\ Len(incoming) = 3
    /\ incoming[1].kind = "Initialize"
    /\ incoming[2].kind = "Next"
    /\ incoming[3].kind = "Attach"
    /\ Len(sender_queue) = 4
    /\ sender_queue[4].event = "stopped"

\* C16: the k-th message the debugger hands to its adapter has seq = k,
\* response or event, within one call of process_meessages and across
\* calls; the placeholder -1 never reaches the adapter.
C16_SequenceNumbers ==
    /\ \A k \in 1..Len(sender_queue) : sender_queue[k].seq = k
    /\ \A k \in 1..Len(calls) :
          calls[k].call = "send_message" => calls[k].message.seq # -1
    /\ sequence_number = Len(sender_queue)

\* C16 witness: a second call of process_meessages has sent the third and
\* the fourth message, a response and an event, after a first call sent
\* two.
C16_Witness ==
    /\ result.op = "process_meessages"
    /\ Len(sender_queue) = 4
    /\ Len(calls) = 4
    /\ calls[2].call = "send_message"
    /\ calls[2].message.seq = 3
    /\ calls[3].message.type = "event"
    /\ calls[3].message.seq = 4

IsResponse(message) == message.type = "response"

IsRequest(item) ==
    item.kind \in {"Initialize", "SetExceptionBreakpoints", "Attach"}

\* C17: the k-th response the debugger has sent answers the k-th request it
\* has received and carries that request's seq in request_seq, whatever
\* its own sequence number is.
C17_RequestCorrelation ==
    LET responses == SelectSeq(sender_queue, IsResponse)
        requests == SelectSeq(Delivered, IsRequest)
    IN  /\ Len(responses) = Len(requests)
        /\ \A k \in 1..Len(responses) :
              /\ responses[k].kind = requests[k].kind
              /\ responses[k].request_seq = requests[k].seq

\* C17 witness: the response to an Attach request with seq 1, received
\* after an Initialize request with seq 8, has seq 3 and request_seq 1.
C17_Witness ==
    /\ Len(sender_queue) = 4
    /\ sender_queue[1].request_seq = 8
    /\ sender_queue[3].kind = "Attach"
    /\ sender_queue[3].seq = 3
    /\ sender_queue[3].request_seq = 1

\* C18: a write to an AtariRam succeeds, stores the byte in the cell
\* selected by the low 7 bits of the address and leaves the 127 other
\* cells as they were; a read succeeds and returns the byte of the cell
\* selected by the low 7 bits of its address, so that after write(a, v) a
\* read(b) with the same low 7 bits returns v; neither indexes outside
\* the 128 cells.
C18_RamMirroring ==
    [][/\ result'.op = "ram_write"
          => (/\ result'.ok
              /\ DOMAIN atari_ram'.bytes = 0..127
              /\ atari_ram'.bytes =
                    [atari_ram.bytes EXCEPT
                        ![result'.address % 128] = result'.value])
       /\ result'.op = "ram_read"
          => (/\ result'.ok
              /\ result'.value = atari_ram.bytes[result'.address % 128]
              /\ atari_ram' = atari_ram
              /\ (/\ result.op = "ram_write"
                  /\ result.address % 128 = result'.address % 128)
                 => result'.value = result.value)]_vars

\* C18 witness: after a write of 159 to 0x2885 over a cell that held
\* another byte, a read of 0xFF85 has returned 159.
C18_Witness ==
    /\ result.op = "ram_read"
    /\ result.ok
    /\ result.address = 65413
    /\ result.value = 159
    /\ result.after = <<10373, 159>>
    /\ atari_ram.bytes[4] = 161

\* C19: AtariRom::new succeeds exactly when the slice has 2048 or 4096
\* bytes; for every other length n it returns RomSizeError { size: n } and
\* no ROM is constructed.
C19_RomSizeValidation ==
    result.op = "rom_new" =>
        /\ result.ok <=> result.size \in {2048, 4096}
        /\ result.ok => (atari_rom.built
                            /\ atari_rom.bytes.len = result.size)
        /\ ~result.ok => (/\ result.error = [size |-> result.size]
                          /\ ~atari_rom.built)

\* C19 witness: a slice of 0x900 bytes has been refused.
C19_Witness ==
    /\ result.op = "rom_new"
    /\ ~result.ok
    /\ result.error = [size |-> 2304]
    /\ ~atari_rom.built

\* C20: a read of a 4096-byte ROM returns the byte at the address modulo
\* 4096 and a read of a 2048-byte ROM the byte at the address modulo 2048,
\* for every 16-bit address; that index is below the length of the ROM and
\* the read does not fail.
C20_RomMirroring ==
    result.op = "rom_read" =>
        LET length == atari_rom.bytes.len
            index == IF length = 4096 THEN result.address % 4096
                     ELSE result.address % 2048
        IN  /\ result.ok
            /\ length \in {2048, 4096}
            /\ index < length
            /\ result.value = ProgramByte(atari_rom.bytes.image, index)

\* C20 witness: a read of 0xF805 of a 2048-byte ROM has returned the byte of
\* cell 5.
C20_Witness ==
    /\ result.op = "rom_read"
    /\ result.ok
    /\ result.address = 63493
    /\ atari_rom.bytes = [len |-> 2048, image |-> 0]
    /\ result.value = 1

\* This step is a successful tick at a position inside the display window.
WindowTick ==
    /\ TickStep
    /\ raster_counter >= 51 /\ raster_counter < 251
    /\ x_counter >= 124 /\ x_counter < 444

\* The position of the bit a one-hot mask selects, counted from the most
\* significant one; 8 for a mask that is not one-hot.
BitPosition(mask) ==
    IF \E b \in 0..7 : mask = 2 ^ (7 - b)
    THEN CHOOSE b \in 0..7 : mask = 2 ^ (7 - b)
    ELSE 8

\* The scan cursor read as one number in the mixed radixes (8, 40, 8, 25):
\* bit, column, bitmap row of the glyph, row of the character matrix.
CursorIndex ==
    (((graphics_row \div 40) * 8 + character_offset) * 40 + graphics_column)
        * 8 + BitPosition(graphics_mask)

\* C21: on every successful tick inside the display window the mask rotates
\* right by one bit; graphics_column advances (c to c+1, or 39 to 0) exactly
\* when the mask wraps from the least to the most significant bit;
\* character_offset advances (o to o+1, or 7 to 0) exactly when
\* graphics_column wraps from 39 to 0; graphics_row advances by 40 modulo
\* 1000 exactly when character_offset wraps from 7 to 0.  So the cursor is a
\* counter in the mixed radixes (8, 40, 8, 25) that such a tick increments by
\* one, modulo 64000.
C21_NestedCarry ==
    [][WindowTick =>
        LET bit_wraps == graphics_mask = 1 /\ graphics_mask' = 128
            column_wraps == graphics_column = 39 /\ graphics_column' = 0
            offset_wraps == character_offset = 7 /\ character_offset' = 0
        IN  /\ graphics_mask' =
                  IF graphics_mask = 1 THEN 128 ELSE graphics_mask \div 2
            /\ graphics_column' =
                  IF ~bit_wraps THEN graphics_column
                  ELSE IF graphics_column = 39 THEN 0
                  ELSE graphics_column + 1
            /\ character_offset' =
                  IF ~column_wraps THEN character_offset
                  ELSE IF character_offset = 7 THEN 0
                  ELSE character_offset + 1
            /\ graphics_row' =
                  IF ~offset_wraps THEN graphics_row
                  ELSE (graphics_row + 40) % 1000
            /\ (graphics_column' # graphics_column) <=> bit_wraps
            /\ (character_offset' # character_offset) <=> column_wraps
            /\ (graphics_row' # graphics_row) <=> offset_wraps
            /\ CursorIndex' = (CursorIndex + 1) % 64000]_vars

\* C21 witness: the last pixel of the eighth line of the display window has
\* been emitted, and the bit, the column and the bitmap row have all carried:
\* the cursor is at the start of the second row of the character matrix.
C21_Witness ==
    /\ Emitted
    /\ last_pixel = <<443, 58>>
    /\ cursor = <<40, 0, 0, 128>>
    /\ reg_border_color = 159

\* The number of display window pixels that precede the raster position
\* (x, line) in its frame.
WindowPixelsAt(x, line) ==
    IF line < 51 THEN 0
    ELSE IF line >= 251 THEN 64000
    ELSE (line - 51) * 320
            + (IF x - 124 < 0 THEN 0 ELSE IF x - 124 > 320 THEN 320
               ELSE x - 124)

\* C22: in every reachable state the scan cursor is a function of the
\* raster position alone: its index in the mixed radixes is the number of
\* display window pixels that precede the position, modulo 64000.  So the
\* cursor is at its origin whenever the raster counter is 0, and at the first
\* display pixel of display line `line` the column is 0, the mask is the
\* most significant bit, character_offset is (line - 51) mod 8 and
\* graphics_row is 40 * ((line - 51) div 8).
C22_CursorFollowsRaster ==
    /\ CursorIndex = WindowPixelsAt(x_counter, raster_counter) % 64000
    /\ raster_counter = 0 => cursor = <<0, 0, 0, 128>>
    /\ (raster_counter >= 51 /\ raster_counter < 251 /\ x_counter = 124)
        => /\ graphics_column = 0
           /\ graphics_mask = 128
           /\ character_offset = (raster_counter - 51) % 8
           /\ graphics_row = 40 * ((raster_counter - 51) \div 8)

\* C22 witness: a frame has been scanned to its last pixel, every address
\* of the color memory being supported by then; the raster counter has
\* wrapped to 0 and the cursor is at its origin.
C22_Witness ==
    /\ Emitted
    /\ last_pixel = <<519, 261>>
    /\ raster_counter = 0
    /\ cursor = <<0, 0, 0, 128>>
    /\ color_memory.bad = {}
    /\ reg_border_color = 159

\* C23: the cursor advances only on display window pixels: a tick at a
\* position outside the display window, a register write, successful or
\* rejected, and a register read each leave graphics_row, graphics_column,
\* character_offset and the mask as they were; a successful tick inside the
\* display window moves the cursor by exactly one glyph bit.
C23_CursorAdvancesOnlyInWindow ==
    [][/\ (/\ result'.op = "tick"
            /\ \/ raster_counter < 51 \/ raster_counter >= 251
               \/ x_counter < 124 \/ x_counter >= 444)
          => UNCHANGED <<graphics_row, graphics_column, character_offset,
                         graphics_mask>>
       /\ result'.op \in {"write", "read"}
          => UNCHANGED <<graphics_row, graphics_column, character_offset,
                         graphics_mask>>
       /\ WindowTick
          => /\ cursor' # cursor
             /\ CursorIndex' = (CursorIndex + 1) % 64000]_vars

\* C23 witness: in the middle of a glyph of the display window the host has
\* written a register and then read one; the cursor is where the last pixel
\* left it.
C23_Witness ==
    /\ result.op = "read"
    /\ result.address = 53281
    /\ written = << <<53280, 159>> >>
    /\ last_pixel = <<207, 52>>
    /\ cursor = <<0, 10, 1, 8>>

\* For every cursor in range and every glyph index, the three addresses of
\* background_tick, computed in 16 bits, are the exact sums and lie in
\* their tables.
AddressesExact ==
    /\ \A r \in 0..24, column \in 0..39 :
          /\ MatrixAddress(40 * r, column) = 1024 + 40 * r + column
          /\ MatrixAddress(40 * r, column) \in 1024..2023
          /\ ColorAddress(40 * r, column) = 55296 + 40 * r + column
          /\ ColorAddress(40 * r, column) \in 55296..56295
    /\ \A glyph \in 0..255, offset \in 0..7 :
          /\ BitmapAddress(glyph, offset) = 4096 + glyph * 8 + offset
          /\ BitmapAddress(glyph, offset) \in 4096..6143

\* C24: every memory access stays inside the address map.  In every
\* reachable state graphics_row is a multiple of 40 in 0..960,
\* graphics_column is in 0..39 (so their sum is below 1000),
\* character_offset is in 0..7 and the mask is one-hot; the reads of a tick
\* go to the character matrix in [0x0400, 0x07E7], then to the bitmap table
\* in [0x1000, 0x17FF], then to the color table in [0xD800, 0xDBE7]; and for
\* such a cursor no address computation exceeds 16 bits, whatever glyph
\* index 0..255 the character matrix holds.
C24_AddressesInMap ==
    /\ graphics_row \in 0..960
    /\ graphics_row % 40 = 0
    /\ graphics_column \in 0..39
    /\ graphics_row + graphics_column < 1000
    /\ character_offset \in 0..7
    /\ \E b \in 0..7 : graphics_mask = 2 ^ b
    /\ \A i \in 1..Len(reads) :
          CASE i = 1 -> /\ reads[i][1] = "graphics"
                        /\ reads[i][2] \in 1024..2023
            [] i = 2 -> /\ reads[i][1] = "graphics"
                        /\ reads[i][2] \in 4096..6143
            [] i = 3 -> /\ reads[i][1] = "color"
                        /\ reads[i][2] \in 55296..56295
            [] OTHER -> FALSE
    /\ AddressesExact

\* C24 witness: the last foreground pixel of the display window has been
\* emitted: its three reads went to the last cell of the character matrix,
\* to the last bitmap row of that cell's glyph and to the last cell of the
\* color table.
C24_Witness ==
    /\ Emitted
    /\ Len(reads) = 3
    /\ reads[1] = <<"graphics", 2023>>
    /\ reads[2][2] % 8 = 7
    /\ reads[3] = <<"color", 56295>>
    /\ last_pixel[2] = 250

\* The last tick failed and the address it failed on is still unsupported.
Stalled == reads # <<>> /\ ~Supported(reads[Len(reads)])

\* C25: no progress after a failure.  Once a tick has failed, and as long
\* as the memories stay as they are, register writes and reads leave the
\* raster position and the cursor alone, every further tick fails with the
\* same error address, the position does not advance and no pixel is
\* emitted; once the address has become readable the next tick emits the
\* pixel of that same position, the successor of the last pixel emitted
\* before the failure.
C25_NoProgressAfterFailure ==
    [][/\ (Stalled /\ UNCHANGED memories)
          => /\ UNCHANGED <<x_counter, raster_counter>>
             /\ UNCHANGED <<graphics_row, graphics_column, character_offset,
                            graphics_mask>>
             /\ UNCHANGED <<last_pixel, ticks>>
             /\ result'.op = "tick"
                => /\ ~result'.ok
                   /\ result'.error = [address |-> reads[Len(reads)][2]]
                   /\ "output" \notin DOMAIN result'
       /\ result'.op = "map"
          => /\ UNCHANGED <<x_counter, raster_counter>>
             /\ UNCHANGED <<graphics_row, graphics_column, character_offset,
                            graphics_mask>>
             /\ UNCHANGED <<last_pixel, ticks>>
       /\ (result.op = "map" /\ result'.op = "tick")
          => /\ result'.ok
             /\ result'.output.x = x_counter
             /\ result'.output.raster_line = raster_counter
             /\ last_pixel # <<>>
                => <<x_counter, raster_counter>> = Successor(last_pixel)]_vars

\* C25 witness: the tick at (156, 52) failed on the unsupported bitmap row
\* and the host has since written both color registers; the address is
\* still unsupported, and the position and the cursor are still those of
\* the failed tick.
C25_Witness ==
    /\ result.op = "write"
    /\ result.ok
    /\ Stalled
    /\ reads = << <<"graphics", 1028>>, <<"graphics", 5385>> >>
    /\ written = << <<53280, 159>>, <<53281, 159>> >>
    /\ position = <<156, 52>>
    /\ last_pixel = <<155, 52>>
    /\ cursor = <<0, 4, 1, 128>>

\* Raster positions the scan is watched at: the corners of the frame and of
\* the display window, and a position past the middle of the frame.
ScanSamples ==
    {<<0, 0>>, <<519, 0>>, <<124, 51>>, <<443, 250>>, <<300, 131>>,
     <<0, 261>>, <<519, 261>>}

\* C26: if every memory read succeeds and the host keeps ticking, every
\* raster position (x, line) with 0 <= x < 520 and 0 <= line < 262 is
\* emitted again and again from every reachable state (checked at the
\* positions of ScanSamples, the wraparound to (0,0) among them), and the
\* pixels are emitted in row-major order without a gap or a repetition:
\* the tick number n of a frame emits position n, so 520 * 262 consecutive
\* ticks emit every position exactly once.
C26_ScanIsLive ==
    /\ \A p \in ScanSamples :
          []<>(/\ Emitted
               /\ result.output.x = p[1]
               /\ result.output.raster_line = p[2])
    /\ []<>(x_counter = 0 /\ raster_counter = 0 /\ last_pixel = <<519, 261>>)
    /\ [][TickStep =>
            /\ result'.ok
            /\ result'.output.x \in 0..519
            /\ result'.output.raster_line \in 0..261
            /\ result'.output.raster_line * 520 + result'.output.x = ticks
            /\ ticks' = (ticks + 1) % (520 * 262)]_vars

\* C26 witness: the pixel of position (0,0) has been emitted in a frame
\* after the first, in the border color the host wrote in an earlier frame.
C26_Witness ==
    /\ Emitted
    /\ result.output.x = 0
    /\ result.output.raster_line = 0
    /\ result.output.color = 159
    /\ result.after = <<>>
    /\ ticks = 1

\* C27: the color table is read only for foreground pixels.  A tick outside
\* the display window reads no memory.  A tick inside it whose two reads of
\* the graphics memory succeed reads the color memory exactly when the bit
\* the mask selects in the bitmap row is 1, at the address of the cell: when
\* the bit is 0 the tick succeeds with the background color 0 register even
\* if that address of the color memory is unsupported; when it is 1 the
\* tick fails exactly if the address is unsupported.
C27_ColorReadOnlyForForeground ==
    [][result'.op = "tick" =>
        LET inside == /\ raster_counter >= 51 /\ raster_counter < 251
                      /\ x_counter >= 124 /\ x_counter < 444
            cell == graphics_row + graphics_column
            glyph == ByteAt(graphics_memory, 1024 + cell)
            row_address == 4096 + 8 * glyph + character_offset
            foreground ==
                Bit(ByteAt(graphics_memory, row_address),
                    7 - BitPosition(graphics_mask)) = 1
            color_reads == {i \in 1..Len(reads') : reads'[i][1] = "color"}
        IN  /\ ~inside => reads' = <<>>
            /\ (/\ inside
                 /\ (1024 + cell) \notin graphics_memory.bad
                 /\ row_address \notin graphics_memory.bad)
               => IF foreground
                  THEN /\ color_reads = {3}
                       /\ reads'[3] = <<"color", 55296 + cell>>
                       /\ result'.ok <=> (55296 + cell) \notin color_memory.bad
                  ELSE /\ color_reads = {}
                       /\ result'.ok
                       /\ result'.output.color = reg_background_color
            /\ color_reads # {} => (inside /\ foreground)]_vars

\* C27 witness: the first pixel of the display window, a background pixel
\* of cell 0, has been emitted after two reads of the graphics memory,
\* while the color memory does not support the address of cell 0.
C27_Witness ==
    /\ Emitted
    /\ last_pixel = <<124, 51>>
    /\ reads = << <<"graphics", 1024>>, <<"graphics", 4200>> >>
    /\ 55296 \in color_memory.bad
    /\ result.output.color = reg_background_color

\* C28: a tick, successful or failing, changes neither color register nor
\* the contents of the graphics memory or of the color memory; the border
\* color register changes only through a successful write to 0xD020 and the
\* background color 0 register only through a successful write to 0xD021,
\* each to the value written.
C28_TickReadsOnly ==
    [][/\ result'.op = "tick"
          => /\ UNCHANGED <<reg_border_color, reg_background_color>>
             /\ UNCHANGED <<graphics_memory, color_memory>>
       /\ reg_border_color' # reg_border_color
          => /\ result'.op = "write"
             /\ result'.ok
             /\ result'.address = 53280
             /\ reg_border_color' = result'.value
       /\ reg_background_color' # reg_background_color
          => /\ result'.op = "write"
             /\ result'.ok
             /\ result'.address = 53281
             /\ reg_background_color' = result'.value]_vars

\* C28 witness: after the host wrote 159 to both color registers, a tick
\* has failed in the display window; both registers hold what the host
\* wrote and the unsupported address is still unsupported.
C28_Witness ==
    /\ Failed
    /\ result.error = [address |-> 5385]
    /\ written = << <<53281, 159>>, <<53280, 159>> >>
    /\ reg_border_color = 159
    /\ reg_background_color = 159
    /\ 5385 \in graphics_memory.bad
    /\ graphics_memory.poked = <<>>

\* C29: the borrow discipline of the shared color memory.  At no time are
\* two RefMut alive, and between calls the Vic holds none.  A tick that
\* returns, with a pixel or with a ReadError, leaves the borrow state as it
\* found it; it borrows exactly when it reads the color table, that is, for
\* a foreground pixel of the display window, and panics instead of reading
\* exactly when the other holder's RefMut is alive then.  So a borrow_mut()
\* of another holder between ticks always succeeds.
C29_BorrowDiscipline ==
    /\ [](/\ Len(color_borrow) <= 1
          /\ \A i \in 1..Len(color_borrow) : color_borrow[i] # "vic")
    /\ [][/\ result'.op = "tick"
              => LET inside == /\ raster_counter >= 51
                               /\ raster_counter < 251
                               /\ x_counter >= 124 /\ x_counter < 444
                     cell == graphics_row + graphics_column
                     glyph == ByteAt(graphics_memory, 1024 + cell)
                     bits == ByteAt(graphics_memory,
                                    4096 + 8 * glyph + character_offset)
                     foreground ==
                         inside /\ Bit(bits, 7 - BitPosition(graphics_mask)) = 1
                 IN  /\ color_borrow' = color_borrow
                     /\ ("panic" \in DOMAIN result')
                           <=> (foreground /\ color_borrow # <<>>)
                     /\ "panic" \notin DOMAIN result'
                           => BorrowEvents(reads') =
                                IF foreground THEN <<"borrow_mut", "drop">>
                                ELSE <<>>
           /\ result'.op = "borrow_mut"
              => /\ result'.ok
                 /\ color_borrow = <<>>
                 /\ color_borrow' = <<"bus">>]_vars

\* C29 witness: a tick has failed with the ReadError of the color table,
\* and the other holder has then borrowed the color memory mutably.
C29_Witness ==
    /\ result.op = "borrow_mut"
    /\ result.ok
    /\ color_borrow = <<"bus">>
    /\ Len(reads) = 3
    /\ reads[3] = <<"color", 55298>>
    /\ 55298 \in color_memory.bad

\* The value of a counter that starts at 0, is incremented once per
\* successful display window tick and wraps at `range`, a divisor of the
\* 64000 display window ticks of a frame.
WindowCounter(range) == WindowPixelsBefore(ticks) % range

\* The four fields of the cursor derived from a counter by repeated
\* division: by the 8 bits of a bitmap row, the 40 columns, the 8 bitmap
\* rows of a glyph.
DerivedCursor(n) ==
    LET bit == n % 8
        columns == n \div 8
        column == columns % 40
        lines == columns \div 40
        offset == lines % 8
        row == lines \div 8
    IN  <<40 * row, column, offset, 2 ^ (7 - bit)>>

\* The counter that wraps at `range` is incremented by the successful
\* display window ticks and by nothing else.
CountsWindowTicks(range) ==
    IF WindowTick
    THEN WindowCounter(range)' = (WindowCounter(range) + 1) % range
    ELSE WindowCounter(range)' = WindowCounter(range)

\* C30 as stated: one integer counter ranging over 0..8000, incremented
\* once per display window tick, from which the four fields are derived by
\* repeated division, reproduces the cursor of background_tick.
C30_SingleCounter8000 ==
    /\ [](cursor = DerivedCursor(WindowCounter(8000)))
    /\ [][CountsWindowTicks(8000)]_vars

\* C30, amended: one integer counter ranging over 0..64000 (8 * 40 * 8 * 25),
\* incremented once per display window tick, from which graphics_row,
\* graphics_column, character_offset and the mask are derived by repeated
\* division, reproduces the four-field cursor of background_tick in every
\* state, its wraparound points included.
C30_SingleCounter64000 ==
    /\ [](cursor = DerivedCursor(WindowCounter(64000)))
    /\ [][CountsWindowTicks(64000)]_vars

\* C30 witness: 8000 display window ticks have succeeded, the last one at
\* (443, 75); the cursor is in the fourth row of the character matrix, where
\* a counter that wraps at 8000 is back at 0.
C30_Witness ==
    /\ Emitted
    /\ last_pixel = <<443, 75>>
    /\ WindowCounter(64000) = 8000
    /\ WindowCounter(8000) = 0
    /\ cursor = <<120, 0, 1, 128>>

IsReceive(call) == call.call = "try_receive_message"

IsSend(call) == call.call = "send_message"

\* The queue holds messages only: no adapter error is waiting in it.
OnlyMessages(queue) == \A i \in 1..Len(queue) : queue[i].kind \in Kinds

\* The adapter calls of the last process_meessages call, in the order it
\* made them: it starts by receiving; what it receives is followed by the
\* replies that item calls for (none for a message of an unsupported kind)
\* and then by the next receive; an empty queue or an adapter error is the
\* last thing it receives; and it returns normally exactly on the empty
\* queue.
ReceivesAndReplies ==
    result.op = "process_meessages" =>
        /\ calls # <<>>
        /\ IsReceive(calls[1])
        /\ \A i \in 1..Len(calls) :
              IsReceive(calls[i]) =>
                  LET item == calls[i].returned
                      replies == Expected(item)
                      n == Len(replies)
                  IN  IF item.kind \in {"Empty", "Err"}
                      THEN /\ i = Len(calls)
                           /\ result.ok <=> item.kind = "Empty"
                      ELSE /\ i + n + 1 <= Len(calls)
                           /\ ~IsRequest(item) => n = 0
                           /\ \A k \in 1..n :
                                 /\ IsSend(calls[i + k])
                                 /\ Shape(calls[i + k].message) = replies[k]
                           /\ IsReceive(calls[i + n + 1])

\* One call of process_meessages against the queue it was called with: the
\* sequence number grows by the number of messages sent, which are the
\* replies to the requests received and are what the sender queue gains;
\* and on a queue of messages the items received are the whole queue in its
\* order and then the empty queue, once, after which the call returns with
\* nothing left queued.
Drains ==
    result'.op = "process_meessages" =>
        LET received == SelectSeq(calls', IsReceive)
            items == [i \in 1..Len(received) |-> received[i].returned]
            sends == SelectSeq(calls', IsSend)
            sent == [i \in 1..Len(sends) |-> sends[i].message]
        IN  /\ sequence_number' = sequence_number + Len(sends)
            /\ sender_queue' = sender_queue \o sent
            /\ Len(sends) = Len(ExpectedAll(SelectSeq(items, IsRequest)))
            /\ OnlyMessages(receiver_queue) =>
                  /\ items = Append(receiver_queue, [kind |-> "Empty"])
                  /\ receiver_queue' = <<>>
                  /\ result'.ok

\* C31: process_meessages drains and terminates. Called with a finite queue
\* of messages it receives every queued message, in the order of the queue,
\* sends the replies to each before it receives the next, and returns
\* exactly when try_receive_message reports the empty queue; a message of an
\* unsupported kind is followed at once by the next receive, with nothing
\* sent and no sequence number used, and the messages queued after it are
\* processed all the same.
C31_DrainsAndTerminates ==
    /\ []ReceivesAndReplies
    /\ [][Drains]_vars

\* C31 witness: one call of process_meessages found an Initialize request,
\* a message of an unsupported kind and an Attach request queued; it made
\* eight adapter calls, received the Attach request right after the
\* unsupported message, numbered its four messages 1 to 4 and returned on
\* the empty queue.
C31_Witness ==
    /\ result.op = "process_meessages"
    /\ result.ok
    /\ receiver_queue = <<>>
    /\ Len(calls) = 8
    /\ calls[4].call = "try_receive_message"
    /\ calls[4].returned.kind = "Next"
    /\ calls[5].call = "try_receive_message"
    /\ calls[5].returned.kind = "Attach"
    /\ calls[7].message.seq = 4
    /\ calls[8].returned.kind = "Empty"
    /\ sequence_number = 4

====
